---- MODULE Spec2Model ----
(***************************************************************************)
(* A model of the magpie virtual computer: the processor (processor.rs),   *)
(* the memory map with its serial device (mem_map.rs) and the harness loop *)
(* Computer::run (main.rs).                                                *)
(*                                                                         *)
(* The processor and the memory map are records; every method of the       *)
(* source is an operator from records to records, translated statement by  *)
(* statement.  The harness is the state machine: one action per statement  *)
(* of the loop of Computer::run.                                           *)
(***************************************************************************)
EXTENDS Integers, Sequences, FiniteSets, TLC

VARIABLES
    processor,  \* Computer.processor : Processor
    mem,        \* Computer.mem       : MemoryMap (with its Serial)
    host,       \* the host terminal: the number of bytes typed so far
    hpc,        \* position of the harness inside Computer::run
    ticks,      \* iterations of the loop started so far
    age,        \* serial runs: clocks since the FIFO became non-empty
    intr,       \* the interrupt being followed: where the program was
                \* interrupted and what the handler has done so far
    last        \* what the step just taken did (its pre-state, the
                \* instruction, the bus writes): a record of observations

vars == <<processor, mem, host, hpc, ticks, age, intr, last>>

---------------------------------------------------------------------------
(* Program constants *)

LINK_REG == 14
PC == 15
IRQ_VEC == 65530
NMI_VEC == 65532
RESET_VEC == 65534
MAIN_MEM_SIZE == 32768
ROM_START == 61440
ROM_SIZE == 4096
SERIAL_TX == 57344
SERIAL_RX == 57346
EXIT == 57600
FIFO_CAP == 16
IRQ_LEN == 4
IRQ_CYCLES == 16

(* Bounds of the model *)

MaxTicks == 8        \* loop iterations of Computer::run explored
MaxHost == 4         \* bytes the host types during a harness run
MaxCycles == 18      \* cap of cycles_since_first_byte in the serial runs
MaxSerialHost == 20  \* bytes the host types during a serial run

---------------------------------------------------------------------------
(* 16-bit and 8-bit arithmetic *)

W16 == 65536
W8 == 256

wrapping_add(a, b) == (a + b) % W16
wrapping_sub(a, b) == (a - b + W16) % W16

Pow2(n) == IF n = 0 THEN 1 ELSE IF n = 1 THEN 2 ELSE IF n = 2 THEN 4
           ELSE IF n = 3 THEN 8 ELSE IF n = 4 THEN 16 ELSE IF n = 5 THEN 32
           ELSE IF n = 6 THEN 64 ELSE IF n = 7 THEN 128 ELSE IF n = 8 THEN 256
           ELSE IF n = 9 THEN 512 ELSE IF n = 10 THEN 1024
           ELSE IF n = 11 THEN 2048 ELSE IF n = 12 THEN 4096
           ELSE IF n = 13 THEN 8192 ELSE IF n = 14 THEN 16384 ELSE 32768

RECURSIVE BitOp(_, _, _, _)
\* bitwise combination of the low n bits of a and b; op is "and", "or", "xor"
BitOp(op, a, b, n) ==
    IF n = 0 THEN 0
    ELSE LET x == a % 2
             y == b % 2
             r == IF op = "and" THEN (IF x = 1 /\ y = 1 THEN 1 ELSE 0)
                  ELSE IF op = "or" THEN (IF x = 1 \/ y = 1 THEN 1 ELSE 0)
                  ELSE (IF x # y THEN 1 ELSE 0)
         IN r + 2 * BitOp(op, a \div 2, b \div 2, n - 1)

And16(a, b) == BitOp("and", a, b, 16)
Or16(a, b) == BitOp("or", a, b, 16)
Xor16(a, b) == BitOp("xor", a, b, 16)
Not16(a) == (W16 - 1) - a

\* the bit of weight 2^k of a
Bit(a, k) == (a \div Pow2(k)) % 2 = 1

\* (v as i8 as i16 as u16): sign extension of the low byte
SignExtend8(v) == LET b == v % W8 IN IF b >= 128 THEN b + (W16 - W8) ELSE b

\* u16 shifts; Rust's overflowing_/wrapping_ shifts mask the amount with 15
Shl16(x, n) == (x * Pow2(n % 16)) % W16
Shr16(x, n) == x \div Pow2(n % 16)
\* (x as i16) >> n, as u16: the sign bit is replicated
Sar16(x, n) ==
    LET k == n % 16
    IN IF x >= 32768 THEN (W16 - 1) - (((W16 - 1) - x) \div Pow2(k))
       ELSE x \div Pow2(k)

\* u16::carrying_add and u16::borrowing_sub: <<value, carry or borrow out>>
carrying_add(lhs, rhs, c) ==
    LET s == lhs + rhs + (IF c THEN 1 ELSE 0) IN <<s % W16, s >= W16>>
borrowing_sub(lhs, rhs, b) ==
    LET d == lhs - rhs - (IF b THEN 1 ELSE 0) IN <<(d + 2 * W16) % W16, d < 0>>

from_le_bytes(b) == b[1] + W8 * b[2]
from_be_bytes(b) == W8 * b[1] + b[2]
to_le_bytes(v) == <<v % W8, v \div W8>>

---------------------------------------------------------------------------
(* Byte arrays.  main_mem ([u8; 32768]) and rom ([u8; 4096]) are kept as   *)
(* functions on the indices that hold a non-zero byte; every other index   *)
(* of the array holds 0.                                                   *)

Get(arr, i) == IF i \in DOMAIN arr THEN arr[i] ELSE 0
Put(arr, i, v) ==
    IF v = 0 THEN [x \in (DOMAIN arr) \ {i} |-> arr[x]]
    ELSE [x \in (DOMAIN arr) \cup {i} |-> IF x = i THEN v ELSE arr[x]]

---------------------------------------------------------------------------
(* mem_map.rs: Serial *)

\* Serial::new (the terminal handles are the host's; term is what was printed)
Serial_new == [buf |-> <<>>, cycles_since_first_byte |-> 0, term |-> <<>>]

RECURSIVE Serial_drain(_, _, _)
\* the loop of Serial::clock over the bytes read from the host (input[idx..])
Serial_drain(buf, input, idx) ==
    IF idx > Len(input) THEN buf
    ELSE IF Len(buf) >= FIFO_CAP THEN buf
    ELSE Serial_drain(Append(buf, input[idx]), input, idx + 1)

\* Serial::clock testing the FIFO before draining the host input into it
Serial_clock_late(s, input) ==
    LET buf == Serial_drain(s.buf, input, 1)
        cycles == IF s.buf # <<>> THEN s.cycles_since_first_byte + 1
                  ELSE s.cycles_since_first_byte
    IN [serial |-> [s EXCEPT !.buf = buf, !.cycles_since_first_byte = cycles],
        irq |-> (Len(buf) >= IRQ_LEN \/ cycles >= IRQ_CYCLES)]

\* Serial::clock, input being what term_in.read returned: the new device
\* and the returned flag
Serial_clock(s, input) ==
    LET buf == Serial_drain(s.buf, input, 1)
        cycles == IF buf # <<>> THEN s.cycles_since_first_byte + 1
                  ELSE s.cycles_since_first_byte
    IN [serial |-> [s EXCEPT !.buf = buf, !.cycles_since_first_byte = cycles],
        irq |-> (Len(buf) >= IRQ_LEN \/ cycles >= IRQ_CYCLES)]

\* Serial::read taking the newest byte (pop_back) instead of the oldest
Serial_read_newest(s) ==
    LET v == IF s.buf # <<>> THEN s.buf[Len(s.buf)] ELSE W16 - 1
        buf == IF s.buf # <<>> THEN SubSeq(s.buf, 1, Len(s.buf) - 1) ELSE s.buf
        cycles == IF buf = <<>> THEN 0 ELSE s.cycles_since_first_byte
    IN [serial |-> [s EXCEPT !.buf = buf, !.cycles_since_first_byte = cycles],
        val |-> to_le_bytes(v)]

\* Serial::read leaving cycles_since_first_byte as it is when the FIFO empties
Serial_read_keep_cycles(s) ==
    LET v == IF s.buf # <<>> THEN Head(s.buf) ELSE W16 - 1
        buf == IF s.buf # <<>> THEN Tail(s.buf) ELSE s.buf
    IN [serial |-> [s EXCEPT !.buf = buf], val |-> to_le_bytes(v)]

\* Serial::read: the new device and the two bytes returned
Serial_read(s) ==
    LET v == IF s.buf # <<>> THEN Head(s.buf) ELSE W16 - 1
        buf == IF s.buf # <<>> THEN Tail(s.buf) ELSE s.buf
        cycles == IF buf = <<>> THEN 0 ELSE s.cycles_since_first_byte
    IN [serial |-> [s EXCEPT !.buf = buf, !.cycles_since_first_byte = cycles],
        val |-> to_le_bytes(v)]

\* Serial::write
Serial_write(s, b) == [s EXCEPT !.term = Append(@, b[1])]

---------------------------------------------------------------------------
(* mem_map.rs: MemoryMap *)

MemoryMap_new(rom) ==
    [main_mem |-> << >>, serial |-> Serial_new, rom |-> rom,
     should_exit |-> FALSE]

\* MemoryMap::read: the two bytes and the memory map after the read
MemoryMap_read(m, addr) ==
    IF addr < MAIN_MEM_SIZE THEN
        [val |-> <<Get(m.main_mem, addr),
                   IF addr + 1 < MAIN_MEM_SIZE THEN Get(m.main_mem, addr + 1)
                   ELSE 0>>,
         m |-> m]
    ELSE IF addr >= ROM_START THEN
        LET a == addr - ROM_START
        IN [val |-> <<Get(m.rom, a),
                      IF a + 1 < ROM_SIZE THEN Get(m.rom, a + 1) ELSE 0>>,
            m |-> m]
    ELSE IF addr = SERIAL_RX THEN
        LET r == Serial_read(m.serial)
        IN [val |-> r.val, m |-> [m EXCEPT !.serial = r.serial]]
    ELSE [val |-> <<0, 0>>, m |-> m]

\* MemoryMap::read_8: the byte and the memory map after the read
MemoryMap_read_8(m, addr) ==
    IF addr < MAIN_MEM_SIZE THEN [val |-> Get(m.main_mem, addr), m |-> m]
    ELSE IF addr >= ROM_START THEN
        [val |-> Get(m.rom, addr - ROM_START), m |-> m]
    ELSE IF addr = SERIAL_RX THEN
        LET r == Serial_read(m.serial)
        IN [val |-> r.val[1], m |-> [m EXCEPT !.serial = r.serial]]
    ELSE [val |-> 0, m |-> m]

\* write storing the high byte without the end-of-RAM test
MemoryMap_write_untruncated(m, addr, val) ==
    IF addr < MAIN_MEM_SIZE THEN
        [m EXCEPT !.main_mem = Put(Put(@, addr, val[1]), addr + 1, val[2])]
    ELSE IF addr = SERIAL_TX THEN [m EXCEPT !.serial = Serial_write(@, val)]
    ELSE IF addr = EXIT THEN [m EXCEPT !.should_exit = TRUE]
    ELSE m

\* MemoryMap::write
MemoryMap_write(m, addr, val) ==
    IF addr < MAIN_MEM_SIZE THEN
        LET m1 == [m EXCEPT !.main_mem = Put(@, addr, val[1])]
        IN IF addr + 1 < MAIN_MEM_SIZE
           THEN [m1 EXCEPT !.main_mem = Put(@, addr + 1, val[2])]
           ELSE m1
    ELSE IF addr = SERIAL_TX THEN [m EXCEPT !.serial = Serial_write(@, val)]
    ELSE IF addr = EXIT THEN [m EXCEPT !.should_exit = TRUE]
    ELSE m

\* write_8 without the EXIT register
MemoryMap_write_8_no_exit(m, addr, val) ==
    IF addr < MAIN_MEM_SIZE THEN [m EXCEPT !.main_mem = Put(@, addr, val)]
    ELSE IF addr = SERIAL_TX
    THEN [m EXCEPT !.serial = Serial_write(@, <<val, 0>>)]
    ELSE m

\* MemoryMap::write_8
MemoryMap_write_8(m, addr, val) ==
    IF addr < MAIN_MEM_SIZE THEN [m EXCEPT !.main_mem = Put(@, addr, val)]
    ELSE IF addr = SERIAL_TX
    THEN [m EXCEPT !.serial = Serial_write(@, <<val, 0>>)]
    ELSE IF addr = EXIT THEN [m EXCEPT !.should_exit = TRUE]
    ELSE m

\* MemoryMap::clock: the memory map after the clock and the irq flag
MemoryMap_clock(m, input) ==
    LET r == Serial_clock(m.serial, input)
    IN [m |-> [m EXCEPT !.serial = r.serial], irq |-> r.irq]

\* MemoryMap::should_exit
MemoryMap_should_exit(m) == m.should_exit

---------------------------------------------------------------------------
(* processor.rs: Processor.  The fields of an instruction word. *)

Nib3(instr) == (instr \div 4096) % 16    \* (instr & 0xf000) >> 12
Nib2(instr) == (instr \div 256) % 16     \* (instr & 0x0f00) >> 8
Nib1(instr) == (instr \div 16) % 16      \* (instr & 0x00f0) >> 4
Nib0(instr) == instr % 16                \* instr & 0xf

\* ShouldWriteFlags::cycle
cycle(s) ==
    CASE s = "No" -> "No3"
      [] s = "No2" -> "No3"
      [] s = "No3" -> "Yes"
      [] s = "Yes" -> "Yes"

\* Processor::new
Processor_new ==
    [registers |-> [i \in 0..15 |-> 0],
     carry |-> FALSE, zero |-> FALSE, negative |-> FALSE,
     interrupts |-> FALSE, iret |-> 0,
     fault |-> FALSE,
     should_write_flags |-> "Yes"]

\* get_flags with the negative and carry bits exchanged
get_flags_swapped(p) ==
    (IF p.zero THEN 1 ELSE 0) + (IF p.carry THEN 2 ELSE 0)
    + (IF p.negative THEN 4 ELSE 0) + (IF p.interrupts THEN 8 ELSE 0)
    + (IF p.fault THEN 16 ELSE 0)

\* Processor::get_flags
get_flags(p) ==
    (IF p.zero THEN 1 ELSE 0) + (IF p.negative THEN 2 ELSE 0)
    + (IF p.carry THEN 4 ELSE 0) + (IF p.interrupts THEN 8 ELSE 0)
    + (IF p.fault THEN 16 ELSE 0)

\* Processor::set_flags
set_flags(p, f) ==
    [p EXCEPT !.zero = Bit(f, 0),
              !.negative = Bit(f, 1),
              !.carry = Bit(f, 2),
              !.interrupts = Bit(f, 3),
              !.fault = Bit(f, 4),
              !.should_write_flags = "No"]

\* read_reg without the hardwired zero
read_reg_raw(p, id) == p.registers[id % 16]

\* Processor::read_reg
read_reg(p, id) == IF id = 0 THEN 0 ELSE p.registers[id % 16]

\* Processor::write_reg_no_flags
write_reg_no_flags(p, id, val) == [p EXCEPT !.registers[id % 16] = val]

\* Processor::write_reg
write_reg(p, id, val) ==
    LET q == write_reg_no_flags(p, id, val)
    IN IF q.should_write_flags = "Yes"
       THEN [q EXCEPT !.zero = (val = 0), !.negative = (val >= 32768)]
       ELSE q

\* Processor::add_sub: <<value, carry>>
add_sub(p, op, lhs, rhs) ==
    LET carry == (op % 2 # 0) /\ p.carry
    IN IF (op \div 2) % 2 = 0
       THEN carrying_add(lhs, rhs, carry)
       ELSE LET r == borrowing_sub(lhs, rhs, ~carry) IN <<r[1], ~r[2]>>

(* The methods below work on the processor together with the memory it is  *)
(* handed: a context [p, m, w, ovf] of the processor, the memory map, the  *)
(* addresses written on the bus so far in this step, and whether an        *)
(* unchecked u16 addition (`+`) overflowed.                                *)

Ctx(p, m) == [p |-> p, m |-> m, w |-> {}, ovf |-> FALSE]

bus_write(c, addr, val) ==
    [c EXCEPT !.m = MemoryMap_write(@, addr, val), !.w = @ \cup {addr}]
bus_write_8(c, addr, val) ==
    [c EXCEPT !.m = MemoryMap_write_8(@, addr, val), !.w = @ \cup {addr}]

\* self.registers[PC] + 2, an unchecked addition
PcPlus2(c) == c.p.registers[PC] + 2

\* Processor::reset
Processor_reset(c) ==
    LET r == MemoryMap_read(c.m, RESET_VEC)
    IN [c EXCEPT !.m = r.m, !.p.registers[PC] = from_le_bytes(r.val)]

\* Processor::nmi
nmi(c) ==
    LET r == MemoryMap_read(c.m, NMI_VEC)
        new_addr == wrapping_sub(from_le_bytes(r.val), 2)
    IN [c EXCEPT !.m = r.m,
                 !.p.iret = c.p.registers[PC],
                 !.p.registers[PC] = new_addr,
                 !.p.interrupts = FALSE]

\* irq without the should_write_flags window
irq_no_window(c) ==
    IF c.p.interrupts THEN
        LET r == MemoryMap_read(c.m, IRQ_VEC)
        IN [c EXCEPT !.m = r.m,
                     !.p.iret = wrapping_sub(c.p.registers[PC], 2),
                     !.p.registers[PC] = from_le_bytes(r.val),
                     !.p.interrupts = FALSE]
    ELSE c

\* irq without the interrupt-enable test
irq_unmasked(c) ==
    IF c.p.should_write_flags = "Yes" THEN
        LET r == MemoryMap_read(c.m, IRQ_VEC)
        IN [c EXCEPT !.m = r.m,
                     !.p.iret = wrapping_sub(c.p.registers[PC], 2),
                     !.p.registers[PC] = from_le_bytes(r.val),
                     !.p.interrupts = FALSE]
    ELSE c

\* irq saving the PC as nmi does, without stepping back
irq_iret_pc(c) ==
    IF c.p.interrupts /\ c.p.should_write_flags = "Yes" THEN
        LET r == MemoryMap_read(c.m, IRQ_VEC)
        IN [c EXCEPT !.m = r.m,
                     !.p.iret = c.p.registers[PC],
                     !.p.registers[PC] = from_le_bytes(r.val),
                     !.p.interrupts = FALSE]
    ELSE c

\* Processor::irq
irq(c) ==
    IF c.p.interrupts /\ c.p.should_write_flags = "Yes" THEN
        LET r == MemoryMap_read(c.m, IRQ_VEC)
        IN [c EXCEPT !.m = r.m,
                     !.p.iret = wrapping_sub(c.p.registers[PC], 2),
                     !.p.registers[PC] = from_le_bytes(r.val),
                     !.p.interrupts = FALSE]
    ELSE c

\* Processor::jump
jump(c, instr, ra, rl) ==
    LET cond == (instr \div 16) % 8
        taken == CASE cond = 0 -> TRUE
                   [] cond = 1 -> c.p.zero
                   [] cond = 2 -> ~c.p.zero
                   [] cond = 3 -> c.p.negative
                   [] OTHER -> FALSE
    IN IF taken THEN
           LET link == PcPlus2(c)
               p1 == write_reg(c.p, rl, link % W16)
               address == read_reg(p1, ra)
           IN [c EXCEPT !.p = [p1 EXCEPT !.registers[PC] =
                                             wrapping_sub(address, 2)],
                        !.ovf = @ \/ link >= W16]
       ELSE c

\* Processor::arithmetic
arithmetic(c, instr, rs, rd) ==
    LET src == read_reg(c.p, rs)
        dest == read_reg(c.p, rd)
        op == Nib1(instr)
        as == add_sub(c.p, op, src, dest)
        p1 == IF op <= 3 THEN [c.p EXCEPT !.carry = as[2]]
              ELSE IF op = 15 THEN set_flags(c.p, src)
              ELSE c.p
        result == CASE op <= 3 -> as[1]
                    [] op = 4 -> And16(src, dest)
                    [] op = 5 -> Not16(dest)
                    [] op = 6 -> Or16(src, dest)
                    [] op = 7 -> Xor16(src, dest)
                    [] op = 8 -> Shl16(dest, src)
                    [] op = 9 -> Shr16(dest, src)
                    [] op = 10 -> Shl16(dest, src)
                    [] op = 11 -> Sar16(dest, src)
                    [] op = 12 -> Shl16(dest, src)
                    [] op = 13 -> Shr16(dest, src)
                    [] op = 14 -> get_flags(c.p)
                    [] OTHER -> dest
    IN [c EXCEPT !.p = write_reg(p1, rd, result)]

\* Processor::push
push(c, rs, val) ==
    LET ptr == read_reg(c.p, rs)
        c1 == bus_write(c, ptr, to_le_bytes(val))
    IN [c1 EXCEPT !.p = write_reg_no_flags(@, rs, wrapping_sub(ptr, 2))]

\* pop reading at the pointer before moving it up
pop_read_first(c, rs) ==
    LET old == read_reg(c.p, rs)
        ptr == wrapping_add(old, 2)
        r == MemoryMap_read(c.m, old)
    IN [c |-> [c EXCEPT !.m = r.m, !.p = write_reg_no_flags(@, rs, ptr)],
        val |-> from_le_bytes(r.val)]

\* Processor::pop: the context after the pop and the value popped
pop(c, rs) ==
    LET ptr == wrapping_add(read_reg(c.p, rs), 2)
        r == MemoryMap_read(c.m, ptr)
    IN [c |-> [c EXCEPT !.m = r.m, !.p = write_reg_no_flags(@, rs, ptr)],
        val |-> from_le_bytes(r.val)]

\* Processor::movement
movement(c, instr, rs, rd) ==
    LET sub == Nib1(instr) % 4
    IN CASE sub = 0 -> push(c, rs, read_reg(c.p, rd))
         [] sub = 1 -> LET r == pop(c, rs)
                       IN [r.c EXCEPT !.p = write_reg(@, rd, r.val)]
         [] sub = 2 -> [c EXCEPT !.p = write_reg(@, rd, read_reg(c.p, rs))]
         [] sub = 3 -> [c EXCEPT !.p = write_reg(@, rd,
                                          SignExtend8(read_reg(c.p, rs)))]

\* Processor::misc
misc(c, instr, r1, r2) ==
    LET sub == Nib1(instr) % 4
    IN CASE sub = 0 -> push(c, r1, c.p.iret)
         [] sub = 1 -> LET r == pop(c, r1)
                       IN [r.c EXCEPT !.p.registers[PC] = r.val,
                                      !.p.interrupts = TRUE]
         [] sub = 2 -> [c EXCEPT !.p = write_reg(@, r2, get_flags(c.p))]
         [] sub = 3 -> [c EXCEPT !.p = [set_flags(@, read_reg(c.p, r1))
                                 EXCEPT !.should_write_flags = "No"]]

\* ld_st with the stores going to the base address, without the offset
ld_st_store_base(c, instr, ra, ro, rd) ==
    LET addr == read_reg(c.p, ra)
        offset == read_reg(c.p, ro)
        eaddr == wrapping_add(addr, offset)
    IN IF (instr \div 2) % 2 = 0 THEN
           IF instr % 2 = 0 THEN
               LET r == MemoryMap_read(c.m, eaddr)
               IN [c EXCEPT !.m = r.m,
                            !.p = write_reg(@, rd, from_le_bytes(r.val))]
           ELSE bus_write(c, addr, to_le_bytes(read_reg(c.p, rd)))
       ELSE
           IF instr % 2 = 0 THEN
               LET r == MemoryMap_read_8(c.m, eaddr)
               IN [c EXCEPT !.m = r.m, !.p = write_reg(@, rd, r.val)]
           ELSE bus_write_8(c, addr, to_le_bytes(read_reg(c.p, rd))[1])

\* Processor::ld_st
ld_st(c, instr, ra, ro, rd) ==
    LET addr == read_reg(c.p, ra)
        offset == read_reg(c.p, ro)
        eaddr == wrapping_add(addr, offset)
    IN IF (instr \div 2) % 2 = 0 THEN
           IF instr % 2 = 0 THEN
               LET r == MemoryMap_read(c.m, eaddr)
               IN [c EXCEPT !.m = r.m,
                            !.p = write_reg(@, rd, from_le_bytes(r.val))]
           ELSE bus_write(c, eaddr, to_le_bytes(read_reg(c.p, rd)))
       ELSE
           IF instr % 2 = 0 THEN
               LET r == MemoryMap_read_8(c.m, eaddr)
               IN [c EXCEPT !.m = r.m, !.p = write_reg(@, rd, r.val)]
           ELSE bus_write_8(c, eaddr, to_le_bytes(read_reg(c.p, rd))[1])

\* Processor::short_op, the relative jump
rjmp(c, instr) ==
    LET k == instr % 4
        jmp == CASE k = 0 -> TRUE
                 [] k = 1 -> TRUE
                 [] k = 2 -> c.p.zero
                 [] OTHER -> c.p.negative
        link == (k = 1)
    IN IF jmp THEN
           LET offset_ek == (instr - (instr % 16)) \div 8
               offset_corrected == offset_ek - 4096
               new_pc == (c.p.registers[PC] + offset_corrected + W16) % W16
               p1 == IF link
                     THEN [c.p EXCEPT !.registers[LINK_REG] = PcPlus2(c) % W16]
                     ELSE c.p
           IN [c EXCEPT !.p = [p1 EXCEPT !.registers[PC] =
                                             wrapping_sub(new_pc, 2)],
                        !.ovf = @ \/ (link /\ PcPlus2(c) >= W16)]
       ELSE c

\* the immediate-to-register operations with SBI leaving the borrow itself
\* in carry
imm_reg_sbi_borrow(c, instr) ==
    LET rd == Nib1(instr)
        imm == instr \div 256
        k == instr % 4
        old == read_reg(c.p, rd)
        add == carrying_add(old, imm, FALSE)
        sb == borrowing_sub(old, imm, FALSE)
        p1 == CASE k = 2 -> [c.p EXCEPT !.carry = add[2]]
                [] k = 3 -> [c.p EXCEPT !.carry = sb[2]]
                [] OTHER -> c.p
        val == CASE k = 0 -> SignExtend8(imm)
                 [] k = 1 -> (old % W8) + W8 * imm
                 [] k = 2 -> add[1]
                 [] OTHER -> sb[1]
    IN [c EXCEPT !.p = write_reg(p1, rd, val)]

\* Processor::short_op, the immediate-to-register operations
imm_reg(c, instr) ==
    LET rd == Nib1(instr)
        imm == instr \div 256
        k == instr % 4
        old == read_reg(c.p, rd)
        add == carrying_add(old, imm, FALSE)
        sb == borrowing_sub(old, imm, FALSE)
        p1 == CASE k = 2 -> [c.p EXCEPT !.carry = add[2]]
                [] k = 3 -> [c.p EXCEPT !.carry = ~sb[2]]
                [] OTHER -> c.p
        val == CASE k = 0 -> SignExtend8(imm)
                 [] k = 1 -> (old % W8) + W8 * imm
                 [] k = 2 -> add[1]
                 [] OTHER -> sb[1]
    IN [c EXCEPT !.p = write_reg(p1, rd, val)]

\* Processor::short_op
short_op(c, instr) ==
    LET sel == (instr \div 4) % 4
    IN CASE sel = 1 -> ld_st(c, instr, Nib3(instr), Nib2(instr), Nib1(instr))
         [] sel = 3 -> rjmp(c, instr)
         [] OTHER -> imm_reg(c, instr)

\* do_instruction taking every 0x8 word with bits 7:6 = 11 for INT
do_instruction_int_any(c, instr) ==
    IF (instr \div 8) % 2 = 0 \/ (instr \div 4) % 4 = 3 THEN short_op(c, instr)
    ELSE LET r1 == Nib3(instr)
             r2 == Nib2(instr)
             fam == (instr \div 64) % 4
         IN CASE Nib0(instr) = 8 ->
                   (CASE fam = 0 -> jump(c, instr, r1, r2)
                      [] fam = 1 -> misc(c, instr, r1, r2)
                      [] fam = 2 -> movement(c, instr, r1, r2)
                      [] OTHER -> nmi(c))
              [] Nib0(instr) = 9 -> arithmetic(c, instr, r1, r2)
              [] OTHER -> c

\* Processor::do_instruction
do_instruction(c, instr) ==
    IF (instr \div 8) % 2 = 0 \/ (instr \div 4) % 4 = 3 THEN short_op(c, instr)
    ELSE LET r1 == Nib3(instr)
             r2 == Nib2(instr)
             fam == (instr \div 64) % 4
         IN CASE Nib0(instr) = 8 ->
                   (CASE fam = 0 -> jump(c, instr, r1, r2)
                      [] fam = 1 -> misc(c, instr, r1, r2)
                      [] fam = 2 -> movement(c, instr, r1, r2)
                      [] OTHER -> IF Nib1(instr) = 12 THEN nmi(c) ELSE c)
              [] Nib0(instr) = 9 -> arithmetic(c, instr, r1, r2)
              [] OTHER -> c

\* Processor::clock: the context after the tick, with the instruction fetched
Processor_clock(c) ==
    LET f == MemoryMap_read(c.m, c.p.registers[PC])
        instr == from_be_bytes(f.val)
        c1 == [c EXCEPT !.m = f.m,
                        !.p.should_write_flags = cycle(@)]
        c2 == do_instruction(c1, instr)
    IN [c |-> [c2 EXCEPT !.p.registers[PC] = wrapping_add(@, 2)],
        instr |-> instr]

---------------------------------------------------------------------------
(* Instruction words, as do_instruction and short_op decode them.  These   *)
(* build the program images the runs start from.                           *)

Imm(rd, imm, k) == (imm % W8) * 256 + rd * 16 + k
LDI(rd, imm) == Imm(rd, imm, 0)
LDH(rd, imm) == Imm(rd, imm, 1)
ADI(rd, imm) == Imm(rd, imm, 2)
SBI(rd, imm) == Imm(rd, imm, 3)
LdSt(ra, ro, rd, k) == ra * 4096 + ro * 256 + rd * 16 + 4 + k
LD(ra, ro, rd) == LdSt(ra, ro, rd, 0)
ST(ra, ro, rd) == LdSt(ra, ro, rd, 1)
LD8(ra, ro, rd) == LdSt(ra, ro, rd, 2)
ST8(ra, ro, rd) == LdSt(ra, ro, rd, 3)
RJMP(off, k) == (off + 4096) * 8 + 12 + k
Long(r1, r2, mid, low) == r1 * 4096 + r2 * 256 + mid * 16 + low
JMP(ra, rl, cond) == Long(ra, rl, cond, 8)
PSR(r1) == Long(r1, 0, 4, 8)
IRET(r1) == Long(r1, 0, 5, 8)
RDF(r2) == Long(0, r2, 6, 8)
WRF(r1) == Long(r1, 0, 7, 8)
PUSH(rs, rd) == Long(rs, rd, 8, 8)
POP(rs, rd) == Long(rs, rd, 9, 8)
MOV(rs, rd) == Long(rs, rd, 10, 8)
MSX(rs, rd) == Long(rs, rd, 11, 8)
INT == Long(0, 0, 12, 8)
ARITH(op, rs, rd) == Long(rs, rd, op, 9)

\* what the decoder makes of a word
IsLong(instr) == ~((instr \div 8) % 2 = 0 \/ (instr \div 4) % 4 = 3)
IsFamily(instr, fam) ==
    IsLong(instr) /\ Nib0(instr) = 8 /\ (instr \div 64) % 4 = fam
IsMisc(instr, sub) == IsFamily(instr, 1) /\ Nib1(instr) % 4 = sub
IsMovement(instr, sub) == IsFamily(instr, 2) /\ Nib1(instr) % 4 = sub
IsArith(instr, op) == IsLong(instr) /\ Nib0(instr) = 9 /\ Nib1(instr) = op
IsLdSt(instr, k) == ~IsLong(instr) /\ (instr \div 4) % 4 = 1 /\ instr % 4 = k
IsRjmp(instr) == ~IsLong(instr) /\ (instr \div 4) % 4 = 3
IsImm(instr, k) == ~IsLong(instr) /\ (instr \div 4) % 4 \in {0, 2}
                   /\ instr % 4 = k
IsSetFlags(instr) == IsMisc(instr, 3) \/ IsArith(instr, 15)

---------------------------------------------------------------------------
(* Program images: the 4096 bytes main() reads from the ROM file.          *)

RECURSIVE PutWords(_, _, _)
\* arr with the words ws stored big-endian (as fetched) from offset at
PutWords(arr, at, ws) ==
    IF ws = <<>> THEN arr
    ELSE PutWords(Put(Put(arr, at, Head(ws) \div W8), at + 1, Head(ws) % W8),
                  at + 2, Tail(ws))

\* a vector, stored little-endian
PutVec(arr, vec, addr) ==
    Put(Put(arr, vec - ROM_START, addr % W8), vec - ROM_START + 1, addr \div W8)

IrqHandler == ROM_START + 64
NmiHandler == ROM_START + 96

\* the handler of the serial interrupt reads one word at r2 (SERIAL_RX in
\* the programs that set it so), the handler of INT only returns
IrqCode == <<PSR(13), LD(2, 0, 3), IRET(13)>>
NmiCode == <<PSR(13), IRET(13)>>

\* the image with the code at the reset address, the two handlers and the
\* three vectors
RomImage(reset, code) ==
    LET a == PutWords(<< >>, reset - ROM_START, code)
        b == PutWords(a, IrqHandler - ROM_START, IrqCode)
        c == PutWords(b, NmiHandler - ROM_START, NmiCode)
    IN PutVec(PutVec(PutVec(c, RESET_VEC, reset), IRQ_VEC, IrqHandler),
              NMI_VEC, NmiHandler)

\* r1: a word for the flags, r2: an address
Setups ==
    { <<LDI(1, 12), LDI(2, 16), LDH(2, 0)>>,      \* r1 = 0x000c, r2 = 0x0010
      <<LDI(1, 11), LDI(2, 0), LDH(2, 225)>>,     \* r1 = 0x000b, r2 = EXIT
      <<LDI(1, 244), LDI(2, 2), LDH(2, 224)>>,    \* r1 = 0xfff4, r2 = SERIAL_RX
      <<LDI(1, 165), LDI(2, 255), LDH(2, 127)>> } \* r1 = 0xffa5, r2 = 0x7fff

Body1 ==
    { WRF(1), ARITH(15, 1, 3), ADI(3, 1), SBI(3, 1), ARITH(0, 1, 3),
      ARITH(2, 1, 3), ST(2, 0, 1), ST8(2, 0, 1), ST(2, 1, 1), LD(2, 0, 3),
      LD8(2, 0, 3), PUSH(2, 1), POP(2, 3), PUSH(0, 1), MOV(1, 0), MOV(0, 3),
      LDI(0, 127), JMP(2, 14, 0), JMP(2, 14, 1), RJMP(4, 0), RJMP(4, 1),
      IRET(2), PSR(2), INT, RDF(3), Long(1, 3, 0, 10), Long(1, 3, 13, 8) }

Body2 ==
    { ADI(3, 1), ADI(1, 255), MOV(0, 3), LD(2, 0, 3), POP(2, 3), ST(0, 0, 1),
      IRET(2), RDF(3), LD(2, 1, 3) }

Programs == { s \o <<b1, b2>> : s \in Setups, b1 \in Body1, b2 \in Body2 }

\* a program that runs into the top of the address space: the word fetched
\* at RESET_VEC is made of the bytes of the reset address
TopOfRom == ROM_START + 3328
TopProgram == <<LDI(2, 254), JMP(2, 0, 0)>>

\* programs with a stack at 0x0040: one enables interrupts and points r2 at
\* SERIAL_RX, one raises INT
IrqProgram == <<LDI(13, 64), LDI(1, 8), WRF(1), LDI(2, 2), LDH(2, 224)>>
IntProgram == <<LDI(13, 64), INT>>

Roms == { RomImage(ROM_START, prog) : prog \in Programs }
        \cup { RomImage(TopOfRom, TopProgram) }
        \cup { RomImage(ROM_START, IrqProgram), RomImage(ROM_START, IntProgram) }

\* the bytes the host types, in order: byte i of the stream
HostByte(i) == IF i % 3 = 0 THEN 255 ELSE 64 + i
HostBytes(from, n) == [k \in 1..n |-> HostByte(from + k)]

---------------------------------------------------------------------------
(* main.rs: Computer::run.  hpc is the statement about to run:             *)
(*   "reset"       self.processor.reset(&mut self.mem)                     *)
(*   "clock"       self.processor.clock(&mut self.mem)                     *)
(*   "mem_clock"   if self.mem.clock()                                     *)
(*   "irq"           self.processor.irq(&mut self.mem)                     *)
(*   "should_exit" if self.mem.should_exit() { break }                     *)
(*   "done"        after the loop; "panicked" after an overflow panic      *)

(* The interrupt being followed.  state is "none"; "entered" once irq() or *)
(* INT has saved iret and loaded the vector; "saved" once the handler has  *)
(* executed PSR via a register 1..14; "returned" once it has executed IRET *)
(* via the same register, the pointer back where PSR left it and the slot  *)
(* still holding what PSR pushed.  resume is the address the program was   *)
(* interrupted at: the PC the tick before irq() left, or the address after *)
(* the INT.  again: irq() entered a new interrupt right after the IRET.    *)
NoIntr ==
    [state |-> "none", kind |-> "none", resume |-> 0, reg |-> 0, slot |-> 0,
     saved |-> 0, again |-> FALSE]

IsInt(instr) == IsLong(instr) /\ Nib0(instr) = 8 /\ Nib1(instr) = 12

\* processor.irq: pre is the processor before the call, post after it
IntrIrq(i, pre, post) ==
    IF post = pre THEN i
    ELSE IF i.state = "returned" THEN [i EXCEPT !.again = TRUE]
    ELSE [NoIntr EXCEPT !.state = "entered", !.kind = "irq",
                        !.resume = pre.registers[PC]]

\* processor.clock executing instr from the processor pre and the memory m
IntrClock(i, pre, m, instr) ==
    LET r1 == Nib3(instr)
    IN CASE IsInt(instr) ->
              [NoIntr EXCEPT !.state = "entered", !.kind = "int",
                             !.resume = wrapping_add(pre.registers[PC], 2)]
         [] IsMisc(instr, 0) /\ i.state = "entered" /\ r1 \in 1..14 ->
              [i EXCEPT !.state = "saved", !.reg = r1,
                        !.slot = pre.registers[r1], !.saved = pre.iret]
         [] IsMisc(instr, 1) ->
              IF /\ i.state = "saved"
                 /\ r1 = i.reg
                 /\ pre.registers[r1] = wrapping_sub(i.slot, 2)
                 /\ from_le_bytes(MemoryMap_read(m, i.slot).val) = i.saved
              THEN [i EXCEPT !.state = "returned"]
              ELSE NoIntr
         [] OTHER -> IF i.state = "returned" THEN NoIntr ELSE i

Observe(op, instr, w, irqv, input) ==
    [op |-> op, p |-> processor, m |-> mem, instr |-> instr, w |-> w,
     irq |-> irqv, input |-> input, val |-> 0]

\* Computer::new on the image main() read
Init ==
    /\ processor = Processor_new
    /\ mem \in { MemoryMap_new(rom) : rom \in Roms }
    /\ host = 0
    /\ hpc = "reset"
    /\ ticks = 0
    /\ age = 0
    /\ intr = NoIntr
    /\ last = [op |-> "new", p |-> processor, m |-> mem, instr |-> 0,
               w |-> {}, irq |-> FALSE, input |-> <<>>, val |-> 0]

Reset ==
    /\ hpc = "reset"
    /\ LET c == Processor_reset(Ctx(processor, mem))
       IN /\ processor' = c.p
          /\ mem' = c.m
    /\ hpc' = "clock"
    /\ last' = Observe("reset", 0, {}, FALSE, <<>>)
    /\ UNCHANGED <<host, ticks, age, intr>>

\* processor.clock.  An overflow of an unchecked addition panics in a build
\* with overflow checks and wraps in one without.
Clock ==
    /\ hpc = "clock"
    /\ ticks < MaxTicks
    /\ LET r == Processor_clock(Ctx(processor, mem))
       IN \/ /\ processor' = r.c.p
             /\ mem' = r.c.m
             /\ hpc' = "mem_clock"
             /\ ticks' = ticks + 1
             /\ last' = Observe("clock", r.instr, r.c.w, FALSE, <<>>)
             /\ intr' = IntrClock(intr, processor, mem, r.instr)
             /\ UNCHANGED <<host, age>>
          \/ /\ r.c.ovf
             /\ hpc' = "panicked"
             /\ last' = Observe("panic", r.instr, {}, FALSE, <<>>)
             /\ UNCHANGED <<processor, mem, host, ticks, age, intr>>

\* the lengths of what term_in.read may return now
HostLens == {0} \cup (IF host < MaxHost
                      THEN {IF MaxHost - host < IRQ_LEN THEN MaxHost - host
                            ELSE IRQ_LEN}
                      ELSE {})

\* mem.clock(), and the branch on its result
MemClock ==
    /\ hpc = "mem_clock"
    /\ \E n \in HostLens :
         LET input == HostBytes(host, n)
             r == MemoryMap_clock(mem, input)
         IN /\ mem' = r.m
            /\ host' = host + n
            /\ hpc' = IF r.irq THEN "irq" ELSE "should_exit"
            /\ last' = Observe("mem_clock", 0, {}, r.irq, input)
    /\ UNCHANGED <<processor, ticks, age, intr>>

\* processor.irq
Irq ==
    /\ hpc = "irq"
    /\ LET c == irq(Ctx(processor, mem))
       IN /\ processor' = c.p
          /\ mem' = c.m
          /\ intr' = IntrIrq(intr, processor, c.p)
    /\ hpc' = "should_exit"
    /\ last' = Observe("irq", 0, {}, TRUE, <<>>)
    /\ UNCHANGED <<host, ticks, age>>

\* if self.mem.should_exit() { break }; clock.wait() only passes time
ShouldExit ==
    /\ hpc = "should_exit"
    /\ hpc' = IF MemoryMap_should_exit(mem) THEN "done" ELSE "clock"
    /\ last' = Observe("should_exit", 0, {}, FALSE, <<>>)
    /\ UNCHANGED <<processor, mem, host, ticks, age, intr>>

Next == Reset \/ Clock \/ MemClock \/ Irq \/ ShouldExit

Spec == Init /\ [][Next]_vars

---------------------------------------------------------------------------
(* The serial device on its own, driven through the two entry points the   *)
(* memory map gives it: MemoryMap::clock and the reads of SERIAL_RX.       *)

InitSerial ==
    /\ processor = Processor_new
    /\ mem = MemoryMap_new(RomImage(ROM_START, <<>>))
    /\ host = 0
    /\ hpc = "serial"
    /\ ticks = 0
    /\ age = 0
    /\ intr = NoIntr
    /\ last = [op |-> "new", p |-> processor, m |-> mem, instr |-> 0,
               w |-> {}, irq |-> FALSE, input |-> <<>>, val |-> 0]

\* the lengths of what term_in.read may return (its buffer is [0; 16])
SerialLens == { n \in {0, 1, IRQ_LEN, FIFO_CAP} : host + n <= MaxSerialHost }

SerialClock ==
    /\ hpc = "serial"
    /\ mem.serial.cycles_since_first_byte < MaxCycles
    /\ \E n \in SerialLens :
         LET input == HostBytes(host, n)
             r == MemoryMap_clock(mem, input)
         IN /\ mem' = r.m
            /\ host' = host + n
            /\ age' = IF r.m.serial.buf # <<>> THEN age + 1 ELSE age
            /\ last' = Observe("serial_clock", 0, {}, r.irq, input)
    /\ UNCHANGED <<processor, hpc, ticks, intr>>

SerialRead ==
    /\ hpc = "serial"
    /\ LET r == MemoryMap_read(mem, SERIAL_RX)
       IN /\ mem' = r.m
          /\ age' = IF r.m.serial.buf = <<>> THEN 0 ELSE age
          /\ last' = [Observe("serial_read", 0, {}, FALSE, <<>>)
                        EXCEPT !.val = from_le_bytes(r.val)]
    /\ UNCHANGED <<processor, host, hpc, ticks, intr>>

SerialRead8 ==
    /\ hpc = "serial"
    /\ LET r == MemoryMap_read_8(mem, SERIAL_RX)
       IN /\ mem' = r.m
          /\ age' = IF r.m.serial.buf = <<>> THEN 0 ELSE age
          /\ last' = [Observe("serial_read_8", 0, {}, FALSE, <<>>)
                        EXCEPT !.val = r.val]
    /\ UNCHANGED <<processor, host, hpc, ticks, intr>>

NextSerial == SerialClock \/ SerialRead \/ SerialRead8

SpecSerial == InitSerial /\ [][NextSerial]_vars

---------------------------------------------------------------------------
(* The claims.  `last` holds the processor and the memory map as they were *)
(* before the step just taken, so a statement about one call is a          *)
(* statement about last and the current state.                             *)

IrqGate(p) == p.interrupts /\ p.should_write_flags = "Yes"
IrqEntered == last.op = "irq" /\ processor # last.p
IrqVecWord == Get(mem.rom, IRQ_VEC - ROM_START)
              + 256 * Get(mem.rom, IRQ_VEC - ROM_START + 1)

\* C1: in the harness an IRQ is entered only from a state where
\* interrupts_enabled is true and should_write_flags is Yes; from any other
\* state the call to irq() changes nothing.
C1_IrqEntryGated ==
    last.op = "irq" =>
        /\ (processor # last.p => IrqGate(last.p))
        /\ (~IrqGate(last.p) => processor = last.p /\ mem = last.m)

C1_Witness == IrqEntered /\ processor.registers[PC] = IrqVecWord

\* C2: should_write_flags advances once per processor.clock along
\* No -> No2 -> No3 -> Yes -> Yes (unless the instruction sets the flags).
ClaimedCycle(s) ==
    CASE s = "No" -> "No2"
      [] s = "No2" -> "No3"
      [] s = "No3" -> "Yes"
      [] s = "Yes" -> "Yes"

C2_CycleThroughNo2 ==
    (last.op = "clock" /\ ~IsSetFlags(last.instr)) =>
        processor.should_write_flags = ClaimedCycle(last.p.should_write_flags)

\* C3: register 0 reads as 0 whatever was stored in its slot: the tick
\* about to run does what it would do with a zero in the slot; and
\* write_reg(id, v) followed by read_reg(id) gives v for id in 1..15 (and 0
\* for id 0).
TestVals == {0, 1, 255, 32768, 65535}
ZeroSlot0(p) == [p EXCEPT !.registers[0] = 0]

C3_R0ReadsZero ==
    /\ hpc = "clock" =>
         LET r == Processor_clock(Ctx(processor, mem))
             z == Processor_clock(Ctx(ZeroSlot0(processor), mem))
         IN /\ ZeroSlot0(r.c.p) = ZeroSlot0(z.c.p)
            /\ r.c.m = z.c.m
            /\ r.c.w = z.c.w
    /\ \A id \in 0..15, v \in TestVals :
         read_reg(write_reg(processor, id, v), id) = IF id = 0 THEN 0 ELSE v

NextInstr == from_be_bytes(MemoryMap_read(mem, processor.registers[PC]).val)

C3_Witness ==
    /\ hpc = "clock"
    /\ processor.registers[0] # 0
    /\ NextInstr \in {MOV(0, 3), ST(0, 0, 1)}

\* C4: a call of irq() with interrupts_enabled false leaves the processor
\* and the memory unchanged.
C4_IrqMaskedNoChange ==
    (last.op = "irq" /\ ~last.p.interrupts) =>
        (processor = last.p /\ mem = last.m)

C4_Witness ==
    /\ last.op = "irq"
    /\ ~last.p.interrupts
    /\ last.p.should_write_flags = "Yes"

\* C5 as claimed: a call of irq() with interrupts_enabled true loads PC from
\* IRQ_VEC, saves the pre-call PC minus 2 in iret and clears
\* interrupts_enabled.
C5_IrqEntersWhenEnabled ==
    (last.op = "irq" /\ last.p.interrupts) =>
        /\ processor.registers[PC] = IrqVecWord
        /\ processor.iret = (last.p.registers[PC] + W16 - 2) % W16
        /\ ~processor.interrupts

\* C5 amended: a call of irq() with interrupts_enabled true and
\* should_write_flags Yes loads PC from IRQ_VEC, saves the pre-call PC minus
\* 2 in iret and clears interrupts_enabled.
C5_IrqEntersWhenEnabledAndYes ==
    (last.op = "irq" /\ last.p.interrupts
     /\ last.p.should_write_flags = "Yes") =>
        /\ processor.registers[PC] = IrqVecWord
        /\ processor.iret = (last.p.registers[PC] + W16 - 2) % W16
        /\ ~processor.interrupts

C5_Witness ==
    /\ last.op = "irq"
    /\ last.p.interrupts
    /\ last.p.should_write_flags = "Yes"
    /\ processor.iret # last.p.iret

\* C6: an instruction executed while should_write_flags is not Yes (and
\* that does not itself set the flags from a word) leaves the zero, negative
\* and carry flags as the restore set them.
C6_RestoredFlagsKept ==
    (last.op = "clock" /\ ~IsSetFlags(last.instr)
     /\ processor.should_write_flags # "Yes") =>
        /\ processor.zero = last.p.zero
        /\ processor.negative = last.p.negative
        /\ processor.carry = last.p.carry

\* C7: the value a load (16-bit, 8-bit or POP) reads is not in the
\* destination register when the tick ends: the next instruction still
\* reads the old value.
IsLoad(instr) == IsLdSt(instr, 0) \/ IsLdSt(instr, 2) \/ IsMovement(instr, 1)
LoadDest(instr) == IF IsMovement(instr, 1) THEN Nib2(instr) ELSE Nib1(instr)

C7_LoadDelayed ==
    (last.op = "clock" /\ IsLoad(last.instr)
     /\ LoadDest(last.instr) \in 1..14
     /\ (IsMovement(last.instr, 1) => Nib3(last.instr) # Nib2(last.instr))) =>
        read_reg(processor, LoadDest(last.instr))
            = read_reg(last.p, LoadDest(last.instr))

\* C8: after a taken jump or relative jump at address A the next fetch is
\* at A + 2 (the delay slot); the target is fetched one tick later.
JumpTaken(p, instr) ==
    \/ /\ IsFamily(instr, 0)
       /\ LET cond == (instr \div 16) % 8
          IN \/ cond = 0
             \/ cond = 1 /\ p.zero
             \/ cond = 2 /\ ~p.zero
             \/ cond = 3 /\ p.negative
    \/ /\ IsRjmp(instr)
       /\ LET k == instr % 4
          IN \/ k \in {0, 1}
             \/ k = 2 /\ p.zero
             \/ k = 3 /\ p.negative

C8_DelaySlotFetched ==
    (last.op = "clock" /\ JumpTaken(last.p, last.instr)) =>
        processor.registers[PC] = (last.p.registers[PC] + 2) % W16

\* C9: a write of either width to EXIT sets should_exit, nothing else sets
\* it, it is never cleared, and once it is set the harness runs no further
\* processor.clock and leaves the loop at its next should_exit() test.
C9_ExitStopsHarness ==
    /\ (last.op = "clock" /\ EXIT \in last.w) => mem.should_exit
    /\ (mem.should_exit /\ ~last.m.should_exit) =>
           (last.op = "clock" /\ EXIT \in last.w)
    /\ last.m.should_exit => mem.should_exit
    /\ mem.should_exit => hpc \in {"mem_clock", "irq", "should_exit", "done"}
    /\ (last.op = "should_exit" /\ mem.should_exit) => hpc = "done"

C9_Witness ==
    /\ hpc = "done"
    /\ mem.should_exit
    /\ ticks < MaxTicks

\* C10: Serial.clock() returns true exactly when, after draining, the FIFO
\* holds at least 4 bytes or cycles_since_first_byte is at least 16; so from
\* the 16th clock since the FIFO became non-empty, with no read emptying
\* it, every clock raises the IRQ.
C10_SerialIrqCondition ==
    last.op = "serial_clock" =>
        /\ last.irq <=> (Len(mem.serial.buf) >= 4
                         \/ mem.serial.cycles_since_first_byte >= 16)
        /\ age >= 16 => last.irq

C10_Witness ==
    /\ last.op = "serial_clock"
    /\ age >= 16
    /\ Len(mem.serial.buf) < 4
    /\ last.irq

\* C11: a 16-bit read of SERIAL_RX returns the oldest buffered byte,
\* zero-extended, and removes exactly that byte (0xFFFF and no change when
\* the FIFO is empty); a clock appends the bytes read from the host in
\* order behind the buffered ones, up to 16 in all, and drops the rest.
Min(a, b) == IF a < b THEN a ELSE b

C11_SerialFifoOrder ==
    /\ last.op = "serial_read" =>
         LET old == last.m.serial.buf
         IN IF old = <<>>
            THEN last.val = 65535 /\ mem.serial.buf = <<>>
            ELSE /\ last.val = old[1]
                 /\ last.val < 256
                 /\ mem.serial.buf = SubSeq(old, 2, Len(old))
    /\ last.op = "serial_clock" =>
         LET old == last.m.serial.buf
             n == Min(Len(last.input), 16 - Len(old))
         IN /\ mem.serial.buf = old \o SubSeq(last.input, 1, n)
            /\ Len(mem.serial.buf) <= 16

C11_Witness ==
    /\ last.op = "serial_read"
    /\ Len(last.m.serial.buf) = 16
    /\ last.val = 255
    /\ host > 16

\* C12: a 16-bit write of w at a RAM address a < 0x7FFF stores the low byte
\* at a and the high byte at a + 1 and a 16-bit read at a returns w; at
\* a = 0x7FFF only the low byte is stored, the read returns it with a zero
\* high byte, and nothing outside the RAM changes.
\* the harness is about to fetch the next instruction
AtFetch == hpc = "clock"

TestAddrs == {0, 16, MAIN_MEM_SIZE - 2, MAIN_MEM_SIZE - 1}
TestWords == TestVals \cup {4660, 421}

WordAfterWrite(a, w) == IF a < 32767 THEN w ELSE w % 256

C12_RamWordRoundTrip ==
    /\ AtFetch => \A a \in TestAddrs, w \in TestWords :
         LET m2 == MemoryMap_write(mem, a, to_le_bytes(w))
             r == MemoryMap_read(m2, a)
         IN /\ from_le_bytes(r.val) = WordAfterWrite(a, w)
            /\ r.m = m2
            /\ Get(m2.main_mem, a) = w % 256
            /\ a < 32767 => Get(m2.main_mem, a + 1) = w \div 256
            /\ DOMAIN m2.main_mem \subseteq 0..32767
            /\ \A x \in (DOMAIN mem.main_mem) \cup (DOMAIN m2.main_mem) :
                 x \notin {a, a + 1} =>
                     Get(m2.main_mem, x) = Get(mem.main_mem, x)
            /\ m2.rom = mem.rom
            /\ m2.serial = mem.serial
            /\ m2.should_exit = mem.should_exit
    /\ (last.op = "clock" /\ IsLdSt(last.instr, 1)
        /\ \E a \in 0..32767 : last.w = {a}) =>
         LET a == CHOOSE a \in last.w : TRUE
             w == read_reg(last.p, Nib1(last.instr))
         IN /\ from_le_bytes(MemoryMap_read(mem, a).val) = WordAfterWrite(a, w)
            /\ DOMAIN mem.main_mem \subseteq 0..32767

C12_Witness ==
    /\ last.op = "clock"
    /\ IsLdSt(last.instr, 1)
    /\ last.w = {32767}
    /\ read_reg(last.p, Nib1(last.instr)) >= 256
    /\ from_le_bytes(MemoryMap_read(mem, 32767).val) = 165

\* C13: for each of the 32 combinations of zero, negative, carry,
\* interrupts_enabled and fault, get_flags packs them in bits 0..4 in that
\* order and set_flags(get_flags()) leaves the five flags as they were; for
\* every word f, get_flags() after set_flags(f) is f & 0x1F.
FlagsOf(p) == <<p.zero, p.negative, p.carry, p.interrupts, p.fault>>
B2N(b) == IF b THEN 1 ELSE 0
FlagWords == (0..31) \cup {32, 63, 255, 4660, 65524, 65535}

C13_FlagsRoundTrip ==
    /\ AtFetch => \A z, n, c, i, f \in BOOLEAN :
         LET p == [processor EXCEPT !.zero = z, !.negative = n, !.carry = c,
                                    !.interrupts = i, !.fault = f]
         IN /\ get_flags(p) = B2N(z) + 2 * B2N(n) + 4 * B2N(c) + 8 * B2N(i)
                              + 16 * B2N(f)
            /\ FlagsOf(set_flags(p, get_flags(p))) = FlagsOf(p)
    /\ AtFetch =>
         \A w \in FlagWords : get_flags(set_flags(processor, w)) = w % 32
    /\ (last.op = "clock" /\ IsMisc(last.instr, 2)
        /\ Nib2(last.instr) \in 1..14) =>
         processor.registers[Nib2(last.instr)]
             = B2N(last.p.zero) + 2 * B2N(last.p.negative)
               + 4 * B2N(last.p.carry) + 8 * B2N(last.p.interrupts)
               + 16 * B2N(last.p.fault)
    /\ (last.op = "clock" /\ IsMisc(last.instr, 3)) =>
         get_flags(processor) = read_reg(last.p, Nib3(last.instr)) % 32

C13_Witness ==
    /\ last.op = "clock"
    /\ IsMisc(last.instr, 2)
    /\ last.p.fault
    /\ last.p.carry
    /\ ~last.p.negative
    /\ processor.registers[3] = 20

\* C14: for rd in 1..14, SBI rd, imm followed by ADI rd, imm restores rd;
\* SBI leaves carry = NOT borrow (r >= imm), and the carry after the ADI is
\* clear exactly when the SBI did not borrow.
TestRegs == {1, 14}
TestImms == {0, 1, 128, 255}
TestOperands == TestVals \cup {254, 256}

C14_SbiAdiRestores ==
    /\ AtFetch => \A rd \in TestRegs, r \in TestOperands, imm \in TestImms :
         LET c0 == Ctx(write_reg_no_flags(processor, rd, r), mem)
             c1 == do_instruction(c0, SBI(rd, imm))
             c2 == do_instruction(c1, ADI(rd, imm))
         IN /\ c1.p.registers[rd] = (r - imm + W16) % W16
            /\ c1.p.carry = (r >= imm)
            /\ c2.p.registers[rd] = r
            /\ (~c2.p.carry) = (r >= imm)
    /\ (last.op = "clock" /\ IsImm(last.instr, 3)
        /\ Nib1(last.instr) \in 1..14) =>
         LET rd == Nib1(last.instr)
             imm == last.instr \div 256
             r == last.p.registers[rd]
             c2 == do_instruction(Ctx(processor, mem), ADI(rd, imm))
         IN /\ processor.carry = (r >= imm)
            /\ c2.p.registers[rd] = r
            /\ (~c2.p.carry) = (r >= imm)

\* SBI r3, 1 borrowed from r3 = 0 and the ADI r3, 1 after it has run
C14_Witness ==
    /\ last.op = "clock"
    /\ last.instr = ADI(3, 1)
    /\ last.p.registers[3] = 65535
    /\ ~last.p.carry
    /\ processor.registers[3] = 0
    /\ processor.carry

\* C15: an executed arithmetic op 0..3 on rd and rs in 1..14 writes to rd,
\* modulo 2^16, rd + rs (op 0), rd + rs + carry_in (op 1), rd - rs (op 2,
\* whatever the incoming carry) or rd - rs - (NOT carry_in) (op 3); carry is
\* the carry out of the addition, or NOT borrow of the subtraction.
ArithTable(op, d, s, cin) ==
    CASE op = 0 -> carrying_add(d, s, FALSE)
      [] op = 1 -> carrying_add(d, s, cin)
      [] op = 2 -> LET r == borrowing_sub(d, s, FALSE) IN <<r[1], ~r[2]>>
      [] OTHER -> LET r == borrowing_sub(d, s, ~cin) IN <<r[1], ~r[2]>>

C15_ArithmeticTable ==
    (last.op = "clock" /\ (\E op \in 0..3 : IsArith(last.instr, op))
     /\ Nib3(last.instr) \in 1..14 /\ Nib2(last.instr) \in 1..14) =>
        LET t == ArithTable(Nib1(last.instr),
                            last.p.registers[Nib2(last.instr)],
                            last.p.registers[Nib3(last.instr)],
                            last.p.carry)
        IN /\ processor.registers[Nib2(last.instr)] = t[1]
           /\ processor.carry = t[2]

\* C16 as claimed: an executed store writes at the base address R[ra],
\* without the offset R[ro].
LdStBase == read_reg(last.p, Nib3(last.instr))
LdStOffset == read_reg(last.p, Nib2(last.instr))
LdStEa == wrapping_add(LdStBase, LdStOffset)
IsStore == last.op = "clock" /\ (IsLdSt(last.instr, 1) \/ IsLdSt(last.instr, 3))

C16_StoreUsesBase == IsStore => last.w = {LdStBase}

\* C16 as amended: loads and stores alike use the effective address
\* (R[ra] + R[ro]) mod 2^16: a store is the one bus write at that address (and
\* in RAM the stored word or byte is found there), a load writes to rd what
\* the memory map holds at that address.
C16_LoadStoreEffectiveAddress ==
    /\ IsStore =>
         /\ last.w = {LdStEa}
         /\ (IsLdSt(last.instr, 1) /\ LdStEa < MAIN_MEM_SIZE - 1) =>
                from_le_bytes(MemoryMap_read(mem, LdStEa).val)
                    = read_reg(last.p, Nib1(last.instr))
         /\ (IsLdSt(last.instr, 3) /\ LdStEa < MAIN_MEM_SIZE) =>
                MemoryMap_read_8(mem, LdStEa).val
                    = read_reg(last.p, Nib1(last.instr)) % W8
    /\ (last.op = "clock" /\ IsLdSt(last.instr, 0)
        /\ Nib1(last.instr) \in 1..14) =>
         processor.registers[Nib1(last.instr)]
             = from_le_bytes(MemoryMap_read(last.m, LdStEa).val)
    /\ (last.op = "clock" /\ IsLdSt(last.instr, 2)
        /\ Nib1(last.instr) \in 1..14) =>
         processor.registers[Nib1(last.instr)]
             = MemoryMap_read_8(last.m, LdStEa).val

\* a store with a nonzero offset has reached RAM at base + offset, and the
\* word at the base is still zero
C16_Witness ==
    /\ IsStore
    /\ IsLdSt(last.instr, 1)
    /\ LdStOffset = 12
    /\ LdStBase = 16
    /\ from_le_bytes(MemoryMap_read(mem, 28).val) = 12
    /\ from_le_bytes(MemoryMap_read(mem, 16).val) = 0

\* C17: a word that matches no defined opcode (a long op with low nibble 0xA
\* or 0xB, or a 0x8 op with bits 7:6 = 11 other than INT) is a no-op: the
\* instruction changes nothing, and the tick that executes it changes no
\* register but PC (+2), none of the five flags, not iret, and writes nothing.
IsInvalid(instr) ==
    /\ IsLong(instr)
    /\ \/ Nib0(instr) \in {10, 11}
       \/ Nib0(instr) = 8 /\ Nib1(instr) \in {13, 14, 15}

InvalidWords ==
    { Long(r1, r2, mid, low) :
        r1 \in {0, 1, 15}, r2 \in {0, 3, 15},
        mid \in {0, 12, 13, 14, 15}, low \in {8, 10, 11} }

C17_InvalidOpcodeNoOp ==
    /\ AtFetch => \A w \in InvalidWords :
         IsInvalid(w) =>
             do_instruction(Ctx(processor, mem), w) = Ctx(processor, mem)
    /\ (last.op = "clock" /\ IsInvalid(last.instr)) =>
         /\ \A r \in 0..14 : processor.registers[r] = last.p.registers[r]
         /\ processor.registers[PC] = wrapping_add(last.p.registers[PC], 2)
         /\ FlagsOf(processor) = FlagsOf(last.p)
         /\ processor.iret = last.p.iret
         /\ last.w = {}
         /\ mem = last.m

\* an undefined 0x8 word has been executed with live registers
C17_Witness ==
    /\ last.op = "clock"
    /\ last.instr = Long(1, 3, 13, 8)
    /\ last.p.registers[1] # 0
    /\ last.p.registers[2] # 0
    /\ processor.registers[PC] = last.p.registers[PC] + 2

\* C18: no instruction at any PC raises an arithmetic exception; a taken
\* jump or jump-and-link at PC = 0xFFFE or 0xFFFF computes its link as
\* (PC + 2) mod 2^16 without overflowing.
C18_NoArithmeticException ==
    /\ hpc # "panicked"
    /\ last.op # "panic"

\* C19: the stack grows down and PUSH/POP are inverse: with rs in 1..14
\* holding p, and p - 2 .. p + 1 in RAM, PUSH of v via rs leaves rs = p - 2
\* and zero/negative as they were; a following POP via rs into another
\* register rd returns v into rd and restores rs = p, with zero/negative
\* those of writing v to rd alone.
TestPtrs == {2, 16, MAIN_MEM_SIZE - 2}
StackRegs == {2, 13}

InRamSlot(p) == p >= 2 /\ p + 1 < MAIN_MEM_SIZE

PopRestores(c, rs, rd, p, v) ==
    LET c2 == do_instruction(c, POP(rs, rd))
    IN /\ c2.p.registers[rd] = v
       /\ c2.p.registers[rs] = p
       /\ c2.p.zero = write_reg(c.p, rd, v).zero
       /\ c2.p.negative = write_reg(c.p, rd, v).negative

C19_PushPopInverse ==
    /\ AtFetch => \A rs \in StackRegs, p \in TestPtrs, v \in TestVals :
         LET p0 == write_reg_no_flags(write_reg_no_flags(processor, rs, p),
                                      1, v)
             c1 == do_instruction(Ctx(p0, mem), PUSH(rs, 1))
         IN /\ c1.p.registers[rs] = p - 2
            /\ c1.p.zero = p0.zero
            /\ c1.p.negative = p0.negative
            /\ c1.w = {p}
            /\ PopRestores(c1, rs, 3, p, v)
    /\ (last.op = "clock" /\ IsMovement(last.instr, 0)
        /\ Nib3(last.instr) \in 1..14
        /\ InRamSlot(last.p.registers[Nib3(last.instr)])) =>
         LET rs == Nib3(last.instr)
             p == last.p.registers[rs]
             v == read_reg(last.p, Nib2(last.instr))
         IN /\ processor.registers[rs] = p - 2
            /\ processor.zero = last.p.zero
            /\ processor.negative = last.p.negative
            /\ \A rd \in (1..14) \ {rs} :
                 PopRestores(Ctx(processor, mem), rs, rd, p, v)
    /\ (last.op = "clock" /\ IsMovement(last.instr, 1)
        /\ Nib3(last.instr) \in 1..14 /\ Nib2(last.instr) \in 1..14
        /\ Nib3(last.instr) # Nib2(last.instr)) =>
         LET rs == Nib3(last.instr)
             ptr == wrapping_add(last.p.registers[rs], 2)
             v == from_le_bytes(MemoryMap_read(last.m, ptr).val)
             pc == [last.p EXCEPT !.should_write_flags = cycle(@)]
         IN /\ processor.registers[rs] = ptr
            /\ processor.registers[Nib2(last.instr)] = v
            /\ processor.zero = write_reg(pc, 1, v).zero
            /\ processor.negative = write_reg(pc, 1, v).negative

\* r1 = 0x000c was pushed via r2 = 0x0010 and the POP after it has run
C19_Witness ==
    /\ last.op = "clock"
    /\ last.instr = POP(2, 3)
    /\ last.p.registers[2] = 14
    /\ from_le_bytes(MemoryMap_read(mem, 16).val) = 12
    /\ processor.registers[3] = 12
    /\ processor.registers[2] = 16

\* C20 as claimed: when an IRQ was entered with PC = N, or INT executed at
\* A = N - 2, and the handler has executed PSR and then IRET via the same
\* pointer with the slot intact, the next instruction the harness fetches is
\* the one at N, with interrupts enabled again.
AfterIret == intr.state = "returned"

C20_FetchAfterIretAtResume ==
    (hpc = "clock" /\ AfterIret) =>
        /\ processor.registers[PC] = intr.resume
        /\ processor.interrupts

\* C20 as amended: the tick that executes the IRET leaves PC = N and
\* interrupts enabled, and the next fetch is at N unless the irq() call that
\* follows that tick enters a new interrupt; then the handler is fetched
\* next, interrupts are off and iret again stands for N.
C20_InterruptReturnResumes ==
    /\ (last.op = "clock" /\ AfterIret) =>
         /\ processor.registers[PC] = intr.resume
         /\ processor.interrupts
    /\ (hpc = "clock" /\ AfterIret /\ ~intr.again) =>
         /\ processor.registers[PC] = intr.resume
         /\ processor.interrupts
    /\ (hpc = "clock" /\ AfterIret /\ intr.again) =>
         /\ processor.registers[PC] = IrqVecWord
         /\ processor.iret = wrapping_sub(intr.resume, 2)
         /\ ~processor.interrupts

\* the serial interrupt came in at N = reset + 10, the handler took a byte
\* off the FIFO and returned, and the harness is about to fetch at N
C20_Witness ==
    /\ hpc = "clock"
    /\ AfterIret
    /\ intr.kind = "irq"
    /\ ~intr.again
    /\ intr.resume = ROM_START + 10
    /\ intr.slot = 64
    /\ processor.registers[13] = 64
    /\ processor.registers[PC] = ROM_START + 10

\* C21: no spurious serial interrupt.  After any interleaving of clocks and
\* reads, cycles_since_first_byte is nonzero only while the FIFO is
\* non-empty: the read that empties the FIFO resets it to 0 and a clock that
\* leaves the FIFO empty does not increment it; so no clock returns true
\* with the FIFO empty, and the FIFO never holds more than 16 bytes.
IsSerialRead == last.op \in {"serial_read", "serial_read_8"}

C21_NoSpuriousSerialIrq ==
    /\ mem.serial.cycles_since_first_byte # 0 => mem.serial.buf # <<>>
    /\ Len(mem.serial.buf) <= FIFO_CAP
    /\ (IsSerialRead /\ mem.serial.buf = <<>>) =>
           mem.serial.cycles_since_first_byte = 0
    /\ (last.op = "serial_clock" /\ mem.serial.buf = <<>>) =>
           /\ mem.serial.cycles_since_first_byte
                  = last.m.serial.cycles_since_first_byte
           /\ ~last.irq
    /\ (last.op = "serial_clock" /\ last.irq) => mem.serial.buf # <<>>

\* one byte had waited 16 clocks or more, so the clocks were raising the
\* IRQ; the read took it and the counter is back at 0 with the FIFO empty
C21_Witness ==
    /\ IsSerialRead
    /\ Len(last.m.serial.buf) = 1
    /\ last.m.serial.cycles_since_first_byte >= IRQ_CYCLES
    /\ mem.serial.buf = <<>>
    /\ mem.serial.cycles_since_first_byte = 0

====
